---- MODULE Spec2Model ----
(***************************************************************************)
(* State-machine model of abs_ratings.py: main(), process_library() with   *)
(* its per-item retry loop, the two source adapters as seen by that loop,  *)
(* and the on-disk history / failure-counter / report documents.           *)
(*                                                                         *)
(* One OS process runs main() at a time ("run").  Between runs only the    *)
(* files survive.  Dates are whole days (history stores "%Y-%m-%d").       *)
(***************************************************************************)
EXTENDS Integers, Sequences, FiniteSets, TLC

\* ------------------------------------------------------------ constants
None == "None"

MAX_FAIL_ATTEMPTS == 5
MAX_CONSECUTIVE_RL == 3

LIBRARY_IDS == <<"L1", "L2">>

\* ------------------------------------------------------------ bounds
\* REFRESH_DAYS and BATCH_SIZE are read from the environment (lines 27-28,
\* defaults 90 and 150); the values explored are small ones
REFRESH_DAYS == 2

MAX_BATCH_SIZE == 2

\* number of runs of main() explored on the plain one-item media server; the
\* script is started once a day, so this is also the last day explored
MaxRuns == 5

\* ------------------------------------------------------------ helpers
EmptyMap == [k \in {} |-> 0]

MapGet(m, k, dflt) == IF k \in DOMAIN m THEN m[k] ELSE dflt

MapSet(m, k, v) == [x \in (DOMAIN m) \cup {k} |-> IF x = k THEN v ELSE m[x]]

MapPop(m, k) == [x \in (DOMAIN m) \ {k} |-> m[x]]

Range(s) == {s[i] : i \in DOMAIN s}

Perms(S) == {p \in [1..Cardinality(S) -> S] : Range(p) = S}

Take(s, n) == IF Len(s) <= n THEN s ELSE SubSeq(s, 1, n)

Filter(s, P(_)) == SelectSeq(s, P)

\* The media server content: library id -> listing of item ids.
\* rich: the catalogs answer with every kind of page the adapters tell
\* apart; otherwise with the plain ones only (see the input sets below).
Servers ==
  { [L1 |-> <<"i1">>,       L2 |-> << >>,     rich |-> TRUE],
    [L1 |-> <<"i1">>,       L2 |-> << >>,     rich |-> FALSE],
    [L1 |-> <<"i1", "i2">>, L2 |-> << >>,     rich |-> FALSE],
    [L1 |-> <<"i1">>,       L2 |-> <<"i2">>,  rich |-> FALSE] }

ItemCount(srv) == Len(srv.L1) + Len(srv.L2)

Keys == {"L1", "L2"} \X {"i1", "i2"}

\* f"{lib_id}_{item['id']}"
Key(lib, iid) == <<lib, iid>>

ZeroStats ==
  [processed |-> 0, success |-> 0, failed |-> 0, skipped |-> 0, recycled |-> 0,
   asin_found |-> 0, asin_migrated |-> 0, meta_updated |-> 0,
   isbn_added |-> 0, isbn_repaired |-> 0]

Bump(st, f) == [st EXCEPT ![f] = @ + 1]

\* ------------------------------------------------------------ state
VARIABLES
  server,          \* media server content (library listings)
  dry_run,         \* DRY_RUN
  today,           \* calendar day of datetime.now(); run number as well
  disk,            \* file name -> content
  tmp,             \* file name -> content of "<path>.tmp"
  history,         \* in-memory history map: key -> day
  failed,          \* in-memory failure-counter map: key -> count
  reports,         \* reports[src]: set of keys with a missing-report entry
  stats,           \* the stats dict
  aborted,         \* stats['aborted_ratelimit']
  pc,              \* position of the running process ("idle": none running)
  wstage,          \* position inside rw_json's write branch
  libIdx,          \* index into LIBRARY_IDS of main()'s for loop
  work_queue,      \* work_queue[:MAX_BATCH_SIZE] of the current library
  idx,             \* position of process_library's for loop (1-based)
  consecutive_rl,  \* consecutive_rl of the current process_library call
  tags, asin, lang, meta_language,   \* locals of the item attempt
  aud_data, best_result, domIdx, refetch, new_lang_detected,
  found, gr_data, has_aud, has_gr,
  aud_block, gr_block,     \* what build_description rendered per source
  search_penalty,  \* line 650 / 724: the item asked for the extra sleep
  calls,           \* requests issued by the current attempt, in order
  swallowed,       \* a blocking answer was served in this attempt and no
                   \* RateLimitException left the adapter
  signal,          \* how the last attempt left the try block: "none",
                   \* "soft" / "hard" (RateLimitException), "error"
  streak,          \* history variable, per key: number of finished passes
                   \* since the start, all of them without a match of either
                   \* source and none lost to a crash; -1 otherwise
  old_aud,         \* lines 916-918: the rendered blocks found in the item's
  old_gr,          \* description (None: no block), as passed to build_description
  served,          \* history variable: the answers to the page requests of the
                   \* running or last get_audible_data call, one
                   \* [domain, page] per region asked, in order
  dropped,         \* history variable: what line 757 overwrote in this attempt,
                   \* "rated" (a result with votes > 0), "empty" (None or a
                   \* result without votes); "none": nothing was overwritten
  final_desc,      \* line 918: the lines build_description puts in front of
                   \* the cleaned description; << >> while it was not called
  last_exit,       \* how the last invocation of main() ended: "summary"
                   \* (line 1007), "early" (a return of lines 982-993),
                   \* "killed"; "none" before the first and while one runs
  fcall,           \* one call of a helper function taken on its own:
                   \* [fn, arg, out]; NoCall in the runs of main()
  attempts,        \* history variable: passes of the 'while True' loop of
                   \* line 652 begun for the current item
  desc_status      \* history variable: status_code of the description PATCH
                   \* of line 924 for the current item; "none": not answered

envVars  == <<server, dry_run, today, streak, last_exit>>
diskVars == <<disk, tmp>>
memVars  == <<history, failed, reports>>
loopVars == <<libIdx, work_queue, idx>>
itemVars == <<tags, asin, lang, meta_language, aud_data, best_result, domIdx, refetch,
              new_lang_detected, found, gr_data, has_aud, has_gr, aud_block,
              gr_block, old_aud, old_gr, final_desc, dropped,
              served>>
obsVars  == <<calls, swallowed, signal>>

vars == <<server, dry_run, today, disk, tmp, history, failed, reports,
          stats, aborted, pc, wstage, libIdx, work_queue, idx,
          consecutive_rl, tags, asin, lang, meta_language, aud_data, best_result, domIdx,
          refetch, new_lang_detected, found, gr_data, has_aud, has_gr,
          aud_block, gr_block, old_aud, old_gr, final_desc, dropped, served,
          search_penalty,
          calls, swallowed, signal, streak, last_exit, fcall, attempts,
          desc_status>>

Files == {"history", "failed", "missing_audible", "missing_goodreads", "env"}

\* A file is absent, complete (doc is what was dumped) or partial (the writer
\* died inside the dump).  doc is a map for the two state files, a set of keys
\* for the two report files and the status line for the summary file.
EmptyDoc(f) ==
  IF f \in {"history", "failed"} THEN EmptyMap
  ELSE IF f = "env" THEN "" ELSE {}

Absent(f) == [st |-> "absent", doc |-> EmptyDoc(f)]
Partial(f) == [st |-> "partial", doc |-> EmptyDoc(f)]
Complete(d) == [st |-> "complete", doc |-> d]

NoData == [kind |-> "None"]

NoCall == [fn |-> "none"]

CurLib == LIBRARY_IDS[libIdx]
CurItem == work_queue[idx]
CurKey == Key(CurLib, CurItem)

\* the locals of an attempt before the attempt has assigned them
ItemReset ==
  /\ tags' = {} /\ asin' = None /\ lang' = None /\ meta_language' = None
  /\ aud_data' = NoData /\ best_result' = NoData /\ domIdx' = 0
  /\ refetch' = FALSE /\ new_lang_detected' = None /\ found' = None
  /\ gr_data' = NoData /\ has_aud' = FALSE /\ has_gr' = FALSE
  /\ aud_block' = "none" /\ gr_block' = "none"
  /\ old_aud' = None /\ old_gr' = None /\ final_desc' = << >> /\ dropped' = "none"
  /\ served' = << >>

\* memory of a process that is not running
ProcessReset ==
  /\ history' = EmptyMap /\ failed' = EmptyMap
  /\ reports' = [audible |-> {}, goodreads |-> {}]
  /\ stats' = ZeroStats /\ aborted' = FALSE
  /\ libIdx' = 0 /\ work_queue' = << >> /\ idx' = 0 /\ consecutive_rl' = 0
  /\ wstage' = "tmp" /\ search_penalty' = FALSE /\ attempts' = 0
  /\ desc_status' = "none"
  /\ ItemReset
  /\ calls' = << >> /\ swallowed' = FALSE /\ signal' = "none"

Init ==
  /\ server \in Servers
  /\ dry_run \in (IF server.rich THEN BOOLEAN ELSE {FALSE})
  /\ today = 0
  /\ disk = [f \in Files |-> Absent(f)]
  /\ tmp = [f \in Files |-> Absent(f)]
  /\ history = EmptyMap /\ failed = EmptyMap
  /\ reports = [audible |-> {}, goodreads |-> {}]
  /\ stats = ZeroStats /\ aborted = FALSE
  /\ pc = "idle" /\ wstage = "tmp"
  /\ libIdx = 0 /\ work_queue = << >> /\ idx = 0 /\ consecutive_rl = 0
  /\ tags = {} /\ asin = None /\ lang = None /\ meta_language = None
  /\ aud_data = NoData /\ best_result = NoData /\ domIdx = 0
  /\ refetch = FALSE /\ new_lang_detected = None /\ found = None
  /\ gr_data = NoData /\ has_aud = FALSE /\ has_gr = FALSE
  /\ aud_block = "none" /\ gr_block = "none"
  /\ old_aud = None /\ old_gr = None /\ final_desc = << >> /\ dropped = "none"
  /\ served = << >>
  /\ search_penalty = FALSE
  /\ calls = << >> /\ swallowed = FALSE /\ signal = "none"
  /\ streak = [k \in Keys |-> 0]
  /\ fcall = NoCall /\ attempts = 0 /\ desc_status = "none"
  /\ last_exit = "none"

\* ------------------------------------------------------------ rw_json
\* rw_json(path) and the comprehension over it in main(): the document, or
\* an empty one when the file does not exist or does not parse.
rw_json_read(f, content) ==
  IF content.st = "complete" THEN content.doc ELSE EmptyDoc(f)

\* A write that is not atomic: the dump goes straight to the target path, so a
\* process that dies inside it can leave a truncated document.
rw_json_crash_target_torn(f, old) == {old, Partial(f)}

\* What the target path can hold when the process dies inside rw_json's write
\* branch before os.replace: the dump goes to "<path>.tmp", the target is
\* untouched.
rw_json_crash_target(f, old) == {old}

\* "<path>.tmp" after the process died inside rw_json's write branch: a
\* leftover that nothing reads and that the next write truncates; it is not
\* kept in the state.
rw_json_crash_tmp(f, old) == Absent(f)

\* ------------------------------------------------------------ main()
\* How many runs of main() are explored on this server: several on the
\* one-item server (an item is passed once per run), one on the others.
RunsAllowed == IF ItemCount(server) = 1 /\ ~server.rich THEN MaxRuns ELSE 1

\* main(), lines 995-1001: the connection check passed; reports, history and
\* failed are read from disk.  The stats are those of a fresh process.
StartRun ==
  /\ fcall' = fcall /\ attempts' = attempts /\ desc_status' = desc_status
  /\ search_penalty' = search_penalty
  /\ pc = "idle" /\ today < RunsAllowed
  /\ today' = today + 1
  /\ history' = rw_json_read("history", disk["history"])
  /\ failed' = rw_json_read("failed", disk["failed"])
  /\ reports' = [audible   |-> rw_json_read("missing_audible", disk["missing_audible"]),
                 goodreads |-> rw_json_read("missing_goodreads", disk["missing_goodreads"])]
  /\ stats' = ZeroStats /\ aborted' = FALSE
  /\ libIdx' = 1 /\ pc' = "lib"
  \* the summary of the previous run is stale and nothing reads it: the model
  \* keeps only the summary written by the current run
  /\ disk' = [disk EXCEPT !["env"] = Absent("env")]
  /\ last_exit' = "none"
  /\ UNCHANGED <<server, dry_run, streak, tmp, wstage, work_queue, idx,
                 consecutive_rl, itemVars, obsVars>>

\* main(), lines 988-993: the connection check fails and main() returns.
ConnFail ==
  /\ fcall' = fcall /\ attempts' = attempts /\ desc_status' = desc_status
  /\ search_penalty' = search_penalty
  /\ pc = "idle" /\ today < RunsAllowed
  /\ today' = today + 1
  /\ last_exit' = "early"
  /\ UNCHANGED <<server, dry_run, streak, diskVars, memVars, stats, aborted, pc,
                 wstage, loopVars, consecutive_rl, itemVars, obsVars>>

\* A gate that opens one day early.
IsDueEarly(now, d) == (now - d) >= REFRESH_DAYS - 1

\* line 631: (datetime.now() - strptime(date)).days >= REFRESH_DAYS
IsDue(now, d) == (now - d) >= REFRESH_DAYS

\* lines 630-632: the items of queue + due
WorkSet(lib, items, hist, now) ==
  {i \in Range(items) :
     \/ Key(lib, i) \notin DOMAIN hist
     \/ IsDue(now, hist[Key(lib, i)])}

\* process_library, lines 625-638: the listing succeeds; the work queue is
\* any shuffle of queue + due, cut to MAX_BATCH_SIZE by the for loop.
ListItems ==
  /\ fcall' = fcall /\ attempts' = attempts /\ desc_status' = desc_status
  /\ search_penalty' = search_penalty
  /\ pc = "lib" /\ libIdx <= Len(LIBRARY_IDS)
  /\ \E wq \in Perms(WorkSet(CurLib, server[CurLib], history, today)) :
       work_queue' = Take(wq, MAX_BATCH_SIZE)
  /\ idx' = 1 /\ consecutive_rl' = 0
  /\ pc' = "loop"
  /\ UNCHANGED <<envVars, diskVars, memVars, stats, aborted, wstage, libIdx,
                 itemVars, obsVars>>

\* process_library, line 628: the listing request fails; the library is
\* skipped.
ListItemsFail ==
  /\ fcall' = fcall /\ attempts' = attempts /\ desc_status' = desc_status
  /\ search_penalty' = search_penalty
  /\ pc = "lib" /\ libIdx <= Len(LIBRARY_IDS)
  /\ libIdx' = libIdx + 1
  /\ UNCHANGED <<envVars, diskVars, memVars, stats, aborted, pc, wstage,
                 work_queue, idx, consecutive_rl, itemVars, obsVars>>

\* A loop without the abort checks.
LoopBreakNever(ab) == FALSE

\* line 641 / 972: the for loop stops when the abort flag is set
LoopBreak(ab) == ab

\* process_library, lines 640-652: head of the for loop.
LoopHead ==
  /\ fcall' = fcall /\ attempts' = attempts /\ desc_status' = desc_status
  /\ pc = "loop"
  /\ search_penalty' = FALSE
  /\ IF idx > Len(work_queue) \/ LoopBreak(aborted)
       THEN /\ libIdx' = libIdx + 1 /\ pc' = "lib"
            /\ work_queue' = << >> /\ idx' = 0 /\ consecutive_rl' = 0
       ELSE /\ pc' = "fetch"
            /\ UNCHANGED <<libIdx, work_queue, idx, consecutive_rl>>
  /\ calls' = << >> /\ swallowed' = FALSE /\ signal' = "none"
  /\ UNCHANGED <<envVars, diskVars, memVars, stats, aborted, wstage, itemVars>>

\* process_library, lines 972-979: after the retry loop of one item.
AfterItem ==
  /\ fcall' = fcall /\ attempts' = 0 /\ desc_status' = "none"
  /\ pc = "post"
  /\ search_penalty' = (IF LoopBreak(aborted) THEN FALSE ELSE search_penalty)
  /\ IF LoopBreak(aborted)
       THEN /\ libIdx' = libIdx + 1 /\ pc' = "lib"
            /\ work_queue' = << >> /\ idx' = 0 /\ consecutive_rl' = 0
       ELSE /\ idx' = idx + 1 /\ pc' = "loop"
            /\ UNCHANGED <<libIdx, work_queue, consecutive_rl>>
  /\ UNCHANGED <<envVars, diskVars, memVars, stats, aborted, wstage, itemVars,
                 obsVars>>

\* main(), line 1003: the for loop over LIBRARY_IDS is exhausted.
LibsDone ==
  /\ fcall' = fcall /\ attempts' = attempts /\ desc_status' = desc_status
  /\ search_penalty' = search_penalty
  /\ pc = "lib" /\ libIdx > Len(LIBRARY_IDS)
  /\ pc' = "fin_history"
  /\ UNCHANGED <<envVars, diskVars, memVars, stats, aborted, wstage, loopVars,
                 consecutive_rl, itemVars, obsVars>>

\* ------------------------------------------------------------ writes
WritePcs == {"save_history", "save_failed",
             "fin_history", "fin_failed", "fin_audible", "fin_goodreads"}

WFile(p) ==
  CASE p \in {"save_history", "fin_history"} -> "history"
    [] p \in {"save_failed", "fin_failed"}   -> "failed"
    [] p = "fin_audible"                     -> "missing_audible"
    [] p = "fin_goodreads"                   -> "missing_goodreads"

WNext(p) ==
  CASE p = "save_history"  -> "save_failed"
    [] p = "save_failed"   -> "item_done"
    [] p = "fin_history"   -> "fin_failed"
    [] p = "fin_failed"    -> "fin_audible"
    [] p = "fin_audible"   -> "fin_goodreads"
    [] p = "fin_goodreads" -> "fin_env"

\* rw_json, lines 113-117: dump the data into "<path>.tmp".
WriteTmp ==
  /\ fcall' = fcall /\ attempts' = attempts /\ desc_status' = desc_status
  /\ search_penalty' = search_penalty
  /\ pc \in WritePcs /\ wstage = "tmp"
  /\ tmp' = [tmp EXCEPT ![WFile(pc)] =
       Complete(CASE WFile(pc) = "history" -> history
                  [] WFile(pc) = "failed" -> failed
                  [] WFile(pc) = "missing_audible" -> reports.audible
                  [] WFile(pc) = "missing_goodreads" -> reports.goodreads)]
  /\ wstage' = "replace"
  /\ UNCHANGED <<envVars, disk, memVars, stats, aborted, pc, loopVars,
                 consecutive_rl, itemVars, obsVars>>

\* rw_json, line 118: os.replace(tmp_path, path).
Replace ==
  /\ fcall' = fcall /\ attempts' = attempts /\ desc_status' = desc_status
  /\ search_penalty' = search_penalty
  /\ pc \in WritePcs /\ wstage = "replace"
  /\ disk' = [disk EXCEPT ![WFile(pc)] = tmp[WFile(pc)]]
  /\ tmp' = [tmp EXCEPT ![WFile(pc)] = Absent(WFile(pc))]
  /\ wstage' = "tmp"
  /\ pc' = WNext(pc)
  /\ UNCHANGED <<envVars, memVars, stats, aborted, loopVars, consecutive_rl,
                 itemVars, obsVars>>

\* write_env_file, lines 130-133: the status of the run summary.
EnvStatus(st, ab) ==
  IF ab THEN "aborted"
  ELSE IF st.failed > 0 THEN "error"
  ELSE IF \E k \in {"success", "recycled", "asin_found", "asin_migrated",
                    "isbn_added", "meta_updated"} : st[k] > 0 THEN "success"
  ELSE "info"

\* write_env_file and the end of main(), lines 1006-1007.
WriteEnv ==
  /\ fcall' = fcall
  /\ pc = "fin_env"
  /\ disk' = [disk EXCEPT !["env"] = Complete(EnvStatus(stats, aborted))]
  /\ pc' = "idle"
  /\ ProcessReset
  /\ last_exit' = "summary"
  /\ UNCHANGED <<server, dry_run, today, streak, tmp>>

\* The process dies (power loss, kill) at any point of a run.
Crash ==
  /\ fcall' = fcall
  /\ pc # "idle"
  /\ IF pc \in WritePcs
       THEN /\ \E c \in rw_json_crash_target(WFile(pc), disk[WFile(pc)]) :
                 disk' = [disk EXCEPT ![WFile(pc)] = c]
            /\ tmp' = [tmp EXCEPT ![WFile(pc)] =
                         rw_json_crash_tmp(WFile(pc), tmp[WFile(pc)])]
       ELSE IF pc = "fin_env"
         THEN /\ \E c \in {disk["env"], Partial("env")} :
                   disk' = [disk EXCEPT !["env"] = c]
              /\ tmp' = tmp
         ELSE UNCHANGED <<disk, tmp>>
  /\ pc' = "idle"
  /\ ProcessReset
  /\ streak' = [k \in Keys |-> -1]
  /\ last_exit' = "killed"
  /\ UNCHANGED <<server, dry_run, today>>

\* ------------------------------------------------------------ item attempt
GERMAN_LANG_CODES == {"de", "deu", "ger", "german", "deutsch"}

COM == "www.audible.com"
DE == "www.audible.de"

\* str.lower() on the language strings that occur
Lower(s) ==
  CASE s = "Deutsch" -> "deutsch"
    [] s = "German"  -> "german"
    [] s = "English" -> "english"
    [] s = "None"    -> "none"
    [] OTHER         -> s

\* LANGUAGE_MAP.get(raw.strip().lower(), raw), lines 42-47 and 695
LanguageMap(raw) ==
  CASE Lower(raw) \in {"englisch", "english"} -> "English"
    [] Lower(raw) \in {"deutsch", "german"}   -> "German"
    [] OTHER                                  -> raw

\* What GET /api/items/{iid} can answer.
TagSets == IF server.rich
             THEN {{}, {"lock_all"}, {"lock_description"}, {"lock_isbn"},
                   {"lock_publisher", "lock_language"},
                   {"lock_year", "lock_genres", "lock_series"}}
             ELSE {{}, {"lock_all"}}
ItemAsins == IF server.rich THEN {None, "A1"} ELSE {"A1"}
ItemLangs == IF server.rich THEN {"English", "de", "ger"} ELSE {"English"}

Call(op, arg) == [op |-> op, arg |-> arg]

\* A script that ignores DRY_RUN.
LiveAlways(dr) == TRUE

\* "if not DRY_RUN", lines 746, 772, 905 and 923
Live(dr) == ~dr

\* A handler that does not count the exception.
OnItemErrorSilent(st) == st

\* except Exception, lines 969-970: count a failure, leave the retry loop.
OnItemError(st) == Bump(st, "failed")

ItemError(st) ==
  /\ stats' = OnItemError(st)
  /\ pc' = "post"
  /\ signal' = "error"
  /\ ItemReset
  /\ UNCHANGED <<envVars, diskVars, memVars, aborted, wstage, loopVars,
                 consecutive_rl>>

\* A handler that looks at the counter only.
RLAbortCountOnly(is_hard, crl) == crl >= MAX_CONSECUTIVE_RL

\* The limit compared one signal too late.
RLAbortLate(is_hard, crl) == is_hard \/ crl > MAX_CONSECUTIVE_RL

\* line 966: e.is_hard or consecutive_rl >= MAX_CONSECUTIVE_RL
RLAbort(is_hard, crl) == is_hard \/ crl >= MAX_CONSECUTIVE_RL

\* A handler that books the interrupted attempt as a failed pass.
RateLimitedStrike(is_hard) ==
  /\ consecutive_rl' = consecutive_rl + 1
  /\ signal' = IF is_hard THEN "hard" ELSE "soft"
  /\ IF RLAbort(is_hard, consecutive_rl + 1)
       THEN aborted' = TRUE /\ pc' = "post"
       ELSE aborted' = aborted /\ pc' = "fetch"
  /\ ItemReset
  /\ failed' = MapSet(failed, CurKey, MapGet(failed, CurKey, 0) + 1)
  /\ UNCHANGED <<envVars, diskVars, history, reports, stats, wstage, loopVars>>

\* except RateLimitException, lines 963-968.
RateLimited(is_hard) ==
  /\ consecutive_rl' = consecutive_rl + 1
  /\ signal' = IF is_hard THEN "hard" ELSE "soft"
  /\ IF RLAbort(is_hard, consecutive_rl + 1)
       THEN aborted' = TRUE /\ pc' = "post"
       ELSE aborted' = aborted /\ pc' = "fetch"
  /\ ItemReset
  /\ UNCHANGED <<envVars, diskVars, memVars, stats, wstage, loopVars>>

\* lines 654-683: fetch the item, read tags and metadata.
Fetch ==
  /\ fcall' = fcall /\ attempts' = attempts + 1 /\ desc_status' = desc_status
  /\ search_penalty' = search_penalty
  /\ pc = "fetch"
  /\ calls' = <<Call("get_item", {})>> /\ swallowed' = FALSE
  /\ \/ ItemError(stats)
     \/ \E tg \in TagSets, a \in ItemAsins, l \in ItemLangs :
          IF "lock_all" \in tg
            THEN /\ stats' = Bump(stats, "skipped")
                 /\ pc' = "post" /\ signal' = "none"
                 /\ ItemReset
                 /\ UNCHANGED <<envVars, diskVars, memVars, aborted, wstage,
                                loopVars, consecutive_rl>>
            ELSE /\ stats' = Bump(stats, "processed") /\ signal' = "none"
                 /\ tags' = tg /\ asin' = a /\ lang' = l /\ meta_language' = l
                 /\ pc' = "aud" /\ domIdx' = 1 /\ best_result' = NoData
                 /\ refetch' = FALSE
                 /\ UNCHANGED <<envVars, diskVars, memVars, aborted, wstage,
                                loopVars, consecutive_rl, aud_data,
                                new_lang_detected, found, gr_data, has_aud,
                                has_gr, aud_block, gr_block, old_aud, old_gr, final_desc, dropped,
                                served>>

\* ------------------------------------------------------------ get_audible_data
\* lines 278-280
Domains(language) ==
  IF language # None /\ Lower(language) \in {"de", "deu", "german", "deutsch"}
    THEN <<DE, COM>> ELSE <<COM, DE>>

NoLinks == [us |-> None, de |-> None]

\* Answers to GET https://{domain}/pd/{asin}.
Links == { [us |-> None, de |-> None], [us |-> "A2", de |-> None],
           [us |-> None, de |-> "A2"], [us |-> "A1", de |-> "A1"] }
MetaLangs == {None, "", "Deutsch", "English"}   \* None: no metadata script

Page(k, l, m) == [kind |-> k, links |-> l, meta |-> m]

Pages ==
  IF server.rich
    THEN {Page("rated", l, m) : l \in Links, m \in MetaLangs}
         \cup {Page("unrated", NoLinks, m) : m \in MetaLangs}
         \cup {Page(k, NoLinks, None) :
                 k \in {"soft404", "hard404", "neterr", "http429", "http503",
                        "captcha"}}
    ELSE {Page(k, NoLinks, None) : k \in {"rated", "unrated", "http429"}}

Blocking == {"http429", "http503", "captcha"}

\* Answers to the search request of scrape_search_result_fallback.
Fallbacks ==
  IF server.rich THEN {"found", "none", "http429", "http503", "captcha"}
  ELSE {"none"}

Record(cnt, dom, l, m, src, a) ==
  [kind |-> "data", count |-> cnt, domain |-> dom, variant_asin_us |-> l.us,
   variant_asin_de |-> l.de, meta |-> m, source |-> src, asin |-> a]

\* scrape_search_result_fallback, lines 241-271: the ratings of the result
\* row, or None; a RateLimitException of fetch_url is caught by "except: pass".
scrape_search_result_fallback(fb) == fb = "found"

\* A lookup that asks every region and returns the last rated page.
RegionNoStop(domain, a, page, fb, best) ==
  [ret |-> FALSE, res |-> NoData,
   best |-> IF page.kind = "rated"
              THEN Record(7, domain, page.links, page.meta, "page", a)
              ELSE best,
   fbreq |-> FALSE]

\* One iteration of the for loop of get_audible_data, lines 284-428.
\* Gives [ret: the function returns now, res: its result, best: best_result,
\*        fbreq: the fallback request was sent].
Region(domain, a, page, fb, best) ==
  CASE page.kind = "neterr" ->
         [ret |-> FALSE, res |-> NoData, best |-> best, fbreq |-> FALSE]
    [] page.kind \in {"soft404", "hard404"} ->
         IF scrape_search_result_fallback(fb)
           THEN [ret |-> TRUE, res |-> Record(7, domain, NoLinks, None, "fallback", a),
                 best |-> best, fbreq |-> TRUE]
           ELSE [ret |-> FALSE, res |-> NoData, best |-> best, fbreq |-> TRUE]
    [] page.kind = "rated" ->
         [ret |-> TRUE, res |-> Record(7, domain, page.links, page.meta, "page", a),
          best |-> best, fbreq |-> FALSE]
    [] OTHER ->   \* a page without ratings: a product page or a block page
         IF scrape_search_result_fallback(fb)
           THEN [ret |-> TRUE, res |-> Record(7, domain, NoLinks, page.meta, "fallback", a),
                 best |-> best, fbreq |-> TRUE]
           ELSE [ret |-> FALSE, res |-> NoData,
                 best |-> IF best.kind = "None"
                            THEN Record(0, domain, NoLinks, None, "Empty", a)
                            ELSE best,
                 fbreq |-> TRUE]

\* lines 690-699 and 760-763
DetectLang(res, old) ==
  IF res.kind = "data" /\ res.meta \notin {None, ""} THEN LanguageMap(res.meta)
  ELSE old

\* A second lookup that is followed by the replacement logic once more.
AudReturnAgain(res) ==
  /\ aud_data' = res
  /\ best_result' = NoData /\ domIdx' = 0
  /\ new_lang_detected' = DetectLang(res, None) /\ pc' = "recon"

\* get_audible_data returns res to process_library, line 686 or line 757.
AudReturn(res) ==
  /\ aud_data' = res
  /\ best_result' = NoData /\ domIdx' = 0
  /\ IF refetch
       THEN new_lang_detected' = DetectLang(res, new_lang_detected) /\ pc' = "meta"
       ELSE new_lang_detected' = DetectLang(res, None) /\ pc' = "recon"

\* line 276: no id, no request.
AudNoAsin ==
  /\ fcall' = fcall /\ attempts' = attempts /\ desc_status' = desc_status
  /\ search_penalty' = search_penalty
  /\ pc = "aud" /\ asin = None
  /\ served' = << >>
  /\ AudReturn(NoData)
  /\ UNCHANGED <<envVars, diskVars, memVars, stats, aborted, wstage, loopVars,
                 consecutive_rl, tags, asin, lang, meta_language, refetch,
                 found, gr_data, has_aud, has_gr, aud_block, gr_block, old_aud, old_gr, final_desc, dropped, obsVars>>

\* lines 284-431: the request to one region and what follows from its answer.
AudRegion ==
  /\ fcall' = fcall /\ attempts' = attempts /\ desc_status' = desc_status
  /\ search_penalty' = search_penalty
  /\ pc = "aud" /\ asin # None /\ domIdx \in 1..2
  /\ \E page \in Pages, fb \in Fallbacks :
       LET dom == Domains(lang)[domIdx]
           o == Region(dom, asin, page, fb, best_result)
       IN /\ calls' = calls /\ signal' = signal
          /\ served' = Append(served, [domain |-> dom, page |-> page])
          /\ swallowed' = (swallowed \/ page.kind \in Blocking
                             \/ (o.fbreq /\ fb \in Blocking))
          /\ IF o.ret THEN AudReturn(o.res)
             ELSE IF domIdx = 2
               THEN AudReturn(o.best)
               ELSE /\ domIdx' = domIdx + 1 /\ best_result' = o.best
                    /\ UNCHANGED <<aud_data, new_lang_detected, pc>>
  /\ UNCHANGED <<envVars, diskVars, memVars, stats, aborted, wstage, loopVars,
                 consecutive_rl, tags, asin, lang, meta_language, refetch,
                 found, gr_data, has_aud, has_gr, aud_block, gr_block, old_aud, old_gr, final_desc, dropped>>

\* ------------------------------------------------------------ reconciler
\* str(check_lang).lower() in GERMAN_LANG_CODES, lines 716-729
IsGerman(l) == Lower(l) \in GERMAN_LANG_CODES

\* line 704
CheckLang(detected, l) == IF detected # None THEN detected ELSE l

\* A reconciler that compares the mirror with the stored language only.
ShouldSearchStoredLang(a, data, cl) ==
  \/ a = None
  \/ data.kind = "None"
  \/ data.count = 0
  \/ (~IsGerman(lang) /\ data.domain = DE)
  \/ (IsGerman(lang) /\ data.domain = COM)

\* lines 702-721
ShouldSearch(a, data, cl) ==
  \/ a = None
  \/ data.kind = "None"
  \/ data.count = 0
  \/ (~IsGerman(cl) /\ data.domain = DE)
  \/ (IsGerman(cl) /\ data.domain = COM)

\* A reconciler that never looks at the alternate-region ids.
LinkForNone(data, cl) == None

\* lines 731-738: the alternate-region id of the mirror of the language
LinkFor(data, cl) ==
  IF data.kind = "None" THEN None
  ELSE IF IsGerman(cl) THEN data.variant_asin_de ELSE data.variant_asin_us

\* find_missing_asin, lines 435-436: the mirror searched first
FindDomains(l) ==
  IF l # None /\ Lower(l) \in GERMAN_LANG_CODES THEN <<DE, COM>> ELSE <<COM, DE>>

\* What find_missing_asin can do: return an id or None, or leave with a
\* RateLimitException of fetch_url (lines 232-236, soft or hard), or with the
\* AttributeError of line 449 when the request to the .de mirror failed.
\* (The rich server answers a blocked search with 429 only: the retries after
\* 503/403/CAPTCHA are explored on the plain servers.)
SearchOutcomes ==
  {[t |-> "id", v |-> None], [t |-> "rl", v |-> "hard"], [t |-> "error", v |-> None]}
  \cup (IF server.rich THEN {[t |-> "id", v |-> "A1"], [t |-> "id", v |-> "A2"]}
        ELSE {[t |-> "rl", v |-> "soft"]})

\* A reconciler without the comparison against the stored id.
ShouldMigrateAny(f, a) == f # None

\* lines 743-744
ShouldMigrate(f, a) == f # None /\ f # a

\* lines 701-767: replacement logic after the first lookup.
Recon ==
  /\ fcall' = fcall /\ attempts' = attempts /\ desc_status' = desc_status
  /\ pc = "recon"
  /\ LET cl == CheckLang(new_lang_detected, lang)
         link == LinkFor(aud_data, cl)
     IN IF ~ShouldSearch(asin, aud_data, cl)
          THEN /\ pc' = "meta" /\ search_penalty' = search_penalty
               /\ UNCHANGED <<envVars, diskVars, memVars, stats, aborted, wstage,
                              loopVars, consecutive_rl, itemVars, obsVars>>
          ELSE \E so \in SearchOutcomes, patch_ok \in BOOLEAN :
            LET searched == link = None
                f == IF searched THEN so.v ELSE link
                log1 == IF searched
                          THEN calls \o <<Call("search", {FindDomains(lang)[1]})>>
                          ELSE calls
            IN /\ swallowed' = swallowed
               /\ search_penalty' = TRUE
               /\ IF searched /\ so.t = "rl"
                    THEN /\ calls' = log1
                         /\ RateLimited(so.v = "hard")
                  ELSE IF searched /\ so.t = "error"
                    THEN /\ calls' = log1
                         /\ ItemError(stats)
                  ELSE IF ~ShouldMigrate(f, asin)
                    THEN /\ calls' = log1 /\ signal' = signal
                         /\ found' = f
                         /\ pc' = "meta"
                         /\ UNCHANGED <<envVars, diskVars, memVars, stats, aborted,
                                        wstage, loopVars, consecutive_rl, tags, asin,
                                        lang, meta_language, aud_data, best_result,
                                        domIdx, refetch, new_lang_detected, gr_data,
                                        has_aud, has_gr, aud_block, gr_block, old_aud, old_gr, final_desc, dropped,
                                        served>>
                  ELSE IF Live(dry_run) /\ ~patch_ok
                    THEN /\ calls' = log1 \o <<Call("patch_asin", {f})>>
                         /\ ItemError(stats)
                  ELSE /\ calls' = log1 \o (IF Live(dry_run)
                                              THEN <<Call("patch_asin", {f})>>
                                              ELSE << >>)
                       /\ found' = f /\ asin' = f /\ signal' = signal
                       /\ stats' = Bump(Bump(stats, "asin_found"), "asin_migrated")
                       /\ lang' = IF IsGerman(cl) THEN lang ELSE "English"
                       /\ refetch' = TRUE /\ pc' = "aud" /\ domIdx' = 1
                       /\ best_result' = NoData /\ served' = << >>
                       \* line 757 overwrites the old result before any read
                       /\ aud_data' = NoData
                       /\ dropped' = (IF aud_data.kind = "data" /\ aud_data.count > 0
                                         THEN "rated" ELSE "empty")
                       /\ UNCHANGED <<envVars, diskVars, memVars, aborted, wstage,
                                      loopVars, consecutive_rl, tags, meta_language,
                                      new_lang_detected, gr_data, has_aud,
                                      has_gr, aud_block, gr_block, old_aud, old_gr, final_desc>>

\* ------------------------------------------------------------ metadata sync
\* Fields whose value in the page metadata differs from the item's.
DiffSets == IF server.rich
              THEN {{}, {"publisher", "series"}, {"publishedYear", "genres"}}
              ELSE {{}}

LockOf(f) ==
  CASE f = "publisher" -> "lock_publisher"
    [] f = "publishedYear" -> "lock_year"
    [] f = "language" -> "lock_language"
    [] f = "genres" -> "lock_genres"
    [] f = "series" -> "lock_series"
    [] OTHER -> "no_lock"

\* A sync that never looks at the lock tags.
AbsUpdatesUnlocked(diff, detected, item_lang, tg) ==
  diff \cup (IF detected # None /\ detected # item_lang
              THEN {"language"} ELSE {})

\* lines 777-889: abs_updates
AbsUpdates(diff, detected, item_lang, tg) ==
  {f \in diff : LockOf(f) \notin tg}
  \cup (IF detected # None /\ detected # item_lang /\ "lock_language" \notin tg
          THEN {"language"} ELSE {})

\* What the rest of the pass reads of the primary result: the vote count
\* (lines 604 and 920).  The fields read only by the reconciler and by the
\* metadata sync are dropped once both are over.
Settled(data) ==
  IF data.kind = "None" THEN data
  ELSE Record(data.count, None, NoLinks, None, data.source, data.asin)

\* lines 771-898: extended metadata sync.
MetaSync ==
  /\ fcall' = fcall /\ attempts' = attempts /\ desc_status' = desc_status
  /\ search_penalty' = search_penalty
  /\ pc = "meta"
  /\ swallowed' = swallowed
  /\ \E diff \in DiffSets, patch_ok \in BOOLEAN :
       LET sync == aud_data.kind = "data" /\ aud_data.meta # None /\ Live(dry_run)
           upd == IF sync
                    THEN AbsUpdates(diff, new_lang_detected, meta_language, tags)
                    ELSE {}
       IN IF upd # {} /\ ~patch_ok
            THEN /\ calls' = calls \o <<Call("patch_meta", upd)>>
                 /\ ItemError(stats)
            ELSE /\ calls' = calls \o (IF upd # {} THEN <<Call("patch_meta", upd)>>
                                       ELSE << >>)
                 /\ stats' = IF upd # {} THEN Bump(stats, "meta_updated") ELSE stats
                 /\ aud_data' = Settled(aud_data) /\ signal' = signal
                 /\ served' = << >>
                 /\ lang' = None /\ meta_language' = None
                 /\ new_lang_detected' = None
                 /\ pc' = "sec"
                 /\ UNCHANGED <<envVars, diskVars, memVars, aborted, wstage,
                                loopVars, consecutive_rl, tags, asin, best_result,
                                domIdx, refetch, found, gr_data, has_aud, has_gr,
                                aud_block, gr_block, old_aud, old_gr, final_desc, dropped>>

\* ------------------------------------------------------------ secondary source
\* What get_goodreads_data can do: a record (with or without an identifier),
\* None, or a RateLimitException of fetch_url, which it does not catch.
GrOutcomes ==
  {[t |-> "data", v |-> None], [t |-> "none", v |-> None], [t |-> "rl", v |-> "hard"]}
  \cup (IF server.rich THEN {[t |-> "data", v |-> "I1"]}
        ELSE {[t |-> "rl", v |-> "soft"]})

\* meta.get('isbn')
StoredIsbns == IF server.rich THEN {None, "I1", "I-1", "I2"} ELSE {None}

\* whether the item's description holds a rendered block of a source
OldBlocks == IF server.rich THEN BOOLEAN ELSE {FALSE}

\* the media API's answer to the description PATCH
DescPatch == IF server.rich THEN {"200", "500", "raise"} ELSE {"200", "500"}

\* str(x or "").replace('-', ''), line 907
Dehyphen(x) ==
  CASE x = None -> ""
    [] x = "I-1" -> "I1"
    [] OTHER -> x

\* lines 900-912: secondary lookup and identifier repair.
Secondary ==
  /\ fcall' = fcall /\ attempts' = attempts /\ desc_status' = desc_status
  /\ search_penalty' = search_penalty
  /\ pc = "sec"
  /\ swallowed' = swallowed
  /\ \E go \in GrOutcomes, isbn \in StoredIsbns, patch_ok \in BOOLEAN :
       LET log1 == calls \o <<Call("gr", {})>>
           repair == /\ go.t = "data" /\ Live(dry_run) /\ "lock_isbn" \notin tags
                     /\ go.v # None /\ Dehyphen(isbn) # Dehyphen(go.v)
       IN IF go.t = "rl"
            THEN /\ calls' = log1
                 /\ RateLimited(go.v = "hard")
          ELSE IF repair /\ ~patch_ok
            THEN /\ calls' = log1 \o <<Call("patch_isbn", {go.v})>>
                 /\ ItemError(stats)
          ELSE /\ calls' = log1 \o (IF repair THEN <<Call("patch_isbn", {go.v})>>
                                    ELSE << >>)
               /\ stats' = IF repair
                             THEN Bump(stats, IF isbn = None THEN "isbn_added"
                                              ELSE "isbn_repaired")
                             ELSE stats
               /\ gr_data' = IF go.t = "data" THEN [kind |-> "data"] ELSE NoData
               /\ pc' = "desc" /\ signal' = signal
               /\ UNCHANGED <<envVars, diskVars, memVars, aborted, wstage, loopVars,
                              consecutive_rl, tags, asin, lang, meta_language,
                              aud_data, best_result, domIdx, refetch,
                              new_lang_detected, found, has_aud, has_gr,
                              aud_block, gr_block, old_aud, old_gr, final_desc, dropped,
                              served>>

\* ------------------------------------------------------------ description
\* A pass that falls back on the votes of the overwritten result.
HasAudOrDropped(data) == (data.kind = "data" /\ data.count > 0) \/ dropped = "rated"

\* lines 920 and 939
HasAud(data) == data.kind = "data" /\ data.count > 0

\* lines 921 and 940
HasGr(data) == data.kind = "data"

\* build_description, lines 604-616: what each source contributes to the block
Block(fresh, old) == IF fresh THEN "fresh" ELSE IF old THEN "recycled" ELSE "none"

\* build_description, lines 610 and 616: stats['recycled'] after the call
Recycle(st, ab, gb) ==
  LET s1 == IF ab = "recycled" THEN Bump(st, "recycled") ELSE st
  IN IF gb = "recycled" THEN Bump(s1, "recycled") ELSE s1

\* The rendered block of a source as RE_AUDIBLE_BLOCK / RE_GR_BLOCK cut it out
\* of the description, lines 916-917.
OldBlock(src, present) == IF present THEN src \o " (old)" ELSE None

\* A merge that drops the old block.
build_description_drop(aud, gr, oa, og) ==
  <<"header">>
  \o (IF HasAud(aud) THEN <<"Audible (new)">> ELSE << >>)
  \o (IF HasGr(gr) THEN <<"Goodreads (new)">> ELSE << >>)
  \o <<"footer">>

\* build_description, lines 603-618: the lines of the rating block, from the
\* header line to the closing marker.
build_description(aud, gr, oa, og) ==
  <<"header">>
  \o (IF HasAud(aud) THEN <<"Audible (new)">>
      ELSE IF oa # None THEN <<oa>> ELSE << >>)
  \o (IF HasGr(gr) THEN <<"Goodreads (new)">>
      ELSE IF og # None THEN <<og>> ELSE << >>)
  \o <<"footer">>

\* lines 914-941: build and write the description.
\* oa / og: the item's description holds a block of that source.
Describe ==
  /\ fcall' = fcall /\ attempts' = attempts
  /\ search_penalty' = search_penalty
  /\ pc = "desc"
  /\ swallowed' = swallowed
  /\ \E oa \in OldBlocks, og \in OldBlocks, patch \in DescPatch :
       LET ha == HasAud(aud_data)
           hg == HasGr(gr_data)
           locked == "lock_description" \in tags
           ab == Block(ha, oa)
           gb == Block(hg, og)
           done(st, log) ==
             /\ stats' = st /\ calls' = log
             /\ has_aud' = ha /\ has_gr' = hg
             /\ aud_block' = (IF locked THEN "none" ELSE ab)
             /\ gr_block' = (IF locked THEN "none" ELSE gb)
             /\ old_aud' = (IF locked THEN None ELSE OldBlock("Audible", oa))
             /\ old_gr' = (IF locked THEN None ELSE OldBlock("Goodreads", og))
             /\ final_desc' =
                  (IF locked THEN << >>
                   ELSE build_description(aud_data, gr_data,
                                          OldBlock("Audible", oa),
                                          OldBlock("Goodreads", og)))
             /\ pc' = "hist" /\ signal' = signal
             /\ desc_status' = (IF Len(log) > Len(calls) THEN patch ELSE "none")
             /\ UNCHANGED <<envVars, diskVars, memVars, aborted, wstage, loopVars,
                            consecutive_rl, tags, asin, lang, meta_language,
                            aud_data, best_result, domIdx, refetch,
                            new_lang_detected, found, gr_data, served, dropped>>
           plus(st) == IF ha \/ hg THEN Bump(st, "success") ELSE st
       IN IF locked
            THEN done(plus(stats), calls)
          ELSE IF ~Live(dry_run)
            THEN done(plus(Recycle(stats, ab, gb)), calls)
          ELSE LET log == calls \o <<Call("patch_desc", {"aud_" \o ab, "gr_" \o gb})>>
               IN CASE patch = "200" -> done(plus(Recycle(stats, ab, gb)), log)
                    [] patch = "500" ->
                         done(Bump(Recycle(stats, ab, gb), "failed"), log)
                    [] OTHER -> /\ calls' = log /\ desc_status' = "none"
                                /\ ItemError(Recycle(stats, ab, gb))

\* ------------------------------------------------------------ history
\* A report that only ever grows.
update_report_add_only(rep, src, key, success) ==
  [rep EXCEPT ![src] = IF success THEN @ ELSE @ \cup {key}]

\* update_report, lines 121-123
update_report(rep, src, key, success) ==
  [rep EXCEPT ![src] = IF success THEN @ \ {key} ELSE @ \cup {key}]

\* A policy that is satisfied with one source.
IsCompleteEither(ha, hg) == ha \/ hg

\* line 949
IsComplete(ha, hg) == ha /\ hg

\* A cooldown that starts one pass late.
HistoryDecisionLate(ha, hg, fails) ==
  IF IsComplete(ha, hg) THEN "commit"
  ELSE IF fails > MAX_FAIL_ATTEMPTS THEN "cooldown"
  ELSE "strike"

\* lines 949-954: what the pass does with the item
HistoryDecision(ha, hg, fails) ==
  IF IsComplete(ha, hg) THEN "commit"
  ELSE IF fails >= MAX_FAIL_ATTEMPTS THEN "cooldown"
  ELSE "strike"

\* A failure map that keeps the counter of a completed item.
NextFailedKeep(fl, key, decision, fails) ==
  IF decision = "strike" THEN MapSet(fl, key, fails)
  ELSE IF decision = "commit" THEN fl
  ELSE MapPop(fl, key)

\* lines 950-954: the failure-counter map after the pass
NextFailed(fl, key, decision, fails) ==
  IF decision = "strike" THEN MapSet(fl, key, fails) ELSE MapPop(fl, key)

\* A commit that is withheld when the description was not written.
NextHistoryIfWritten(h, key, decision, now) ==
  IF decision = "strike" \/ desc_status = "500" THEN h ELSE MapSet(h, key, now)

\* lines 950-954: the history map after the pass
NextHistory(h, key, decision, now) ==
  IF decision = "strike" THEN h ELSE MapSet(h, key, now)

\* lines 943-954: reports, failure counter, history.
Commit ==
  /\ fcall' = fcall /\ attempts' = attempts /\ desc_status' = desc_status
  /\ search_penalty' = search_penalty
  /\ pc = "hist"
  /\ LET fails == MapGet(failed, CurKey, 0) + 1
         d == HistoryDecision(has_aud, has_gr, fails)
     IN /\ reports' = update_report(update_report(reports, "audible", CurKey, has_aud),
                                    "goodreads", CurKey, has_gr)
        /\ failed' = NextFailed(failed, CurKey, d, fails)
        /\ history' = NextHistory(history, CurKey, d, today)
  /\ streak' = [streak EXCEPT ![CurKey] =
                  IF @ >= 0 /\ ~has_aud /\ ~has_gr THEN @ + 1 ELSE -1]
  /\ pc' = "save_history"
  /\ ItemReset
  /\ calls' = << >> /\ swallowed' = FALSE /\ signal' = signal
  /\ UNCHANGED <<server, dry_run, today, last_exit, diskVars, stats, aborted,
                 wstage, loopVars, consecutive_rl>>

\* lines 960-961: the pass is finished.
ItemDone ==
  /\ fcall' = fcall /\ attempts' = attempts /\ desc_status' = desc_status
  /\ search_penalty' = search_penalty
  /\ pc = "item_done"
  /\ consecutive_rl' = 0
  /\ pc' = "post"
  /\ UNCHANGED <<envVars, diskVars, memVars, stats, aborted, wstage, loopVars,
                 itemVars, obsVars>>

\* ------------------------------------------------------------ specification
Next ==
  \/ StartRun \/ ConnFail
  \/ ListItems \/ ListItemsFail \/ LoopHead \/ AfterItem \/ LibsDone
  \/ Fetch \/ AudNoAsin \/ AudRegion \/ Recon \/ MetaSync \/ Secondary
  \/ Describe \/ Commit \/ ItemDone
  \/ WriteTmp \/ Replace \/ WriteEnv
  \/ Crash

Spec == Init /\ [][Next]_vars

\* ------------------------------------------------------------ properties
\* The maps as the next reader sees them: the process's own while it runs,
\* the documents on disk between two runs.
HistoryNow == IF pc = "idle" THEN rw_json_read("history", disk["history"]) ELSE history

FailedNow == IF pc = "idle" THEN rw_json_read("failed", disk["failed"]) ELSE failed

ReportsNow ==
  IF pc = "idle"
    THEN [audible   |-> rw_json_read("missing_audible", disk["missing_audible"]),
          goodreads |-> rw_json_read("missing_goodreads", disk["missing_goodreads"])]
    ELSE reports

\* Positions of the per-item try block (lines 653-958).
AttemptPcs == {"fetch", "aud", "recon", "meta", "sec", "desc", "hist"}

\* The step of lines 943-954 taken for the current item.
PassFinishes == pc = "hist" /\ pc' = "save_history"

\* C1 - Cooldown convergence. An item that started absent from both maps and
\* whose n finished passes all ended without a match of either source is,
\* for n in 1..MAX_FAIL_ATTEMPTS-1, absent from history (still due) with a
\* failure counter of n; for n = MAX_FAIL_ATTEMPTS it is in history, absent
\* from the failure map, and listed in both missing reports.
CooldownConvergence ==
  \A k \in Keys :
    /\ streak[k] \in 1..(MAX_FAIL_ATTEMPTS - 1) =>
         /\ k \notin DOMAIN HistoryNow
         /\ k \in DOMAIN FailedNow /\ FailedNow[k] = streak[k]
    /\ streak[k] = MAX_FAIL_ATTEMPTS =>
         /\ k \in DOMAIN HistoryNow
         /\ k \notin DOMAIN FailedNow
         /\ k \in ReportsNow.audible /\ k \in ReportsNow.goodreads

\* The fifth empty pass has been made and the run that made it has ended.
CooldownReached ==
  \E k \in Keys : streak[k] = MAX_FAIL_ATTEMPTS /\ pc = "idle"

\* A pass that cannot end in a cooldown: the counter stays below the limit.
BelowLimit == MapGet(failed, CurKey, 0) + 1 < MAX_FAIL_ATTEMPTS

\* The pass committed the item without counting a failure.
TreatedComplete ==
  /\ CurKey \in DOMAIN history' /\ history'[CurKey] = today
  /\ CurKey \notin DOMAIN failed'

\* The pass counted a failure.
CountedFailure ==
  /\ history' = history
  /\ CurKey \in DOMAIN failed' /\ failed'[CurKey] = MapGet(failed, CurKey, 0) + 1

\* A source is found-or-recycled: fresh data, or its old block re-emitted.
FoundOrRecycled(fresh, block) == fresh \/ block = "recycled"

\* C2 as stated - Completion policy. A finished pass treats the item as
\* complete exactly when (it has a catalog id and both the primary and the
\* secondary source are found-or-recycled) or (it has no catalog id and the
\* secondary source is found-or-recycled); otherwise it counts a failure.
CompletionPolicyStated ==
  [][PassFinishes /\ BelowLimit =>
       LET policy ==
             \/ /\ asin # None
                /\ FoundOrRecycled(has_aud, aud_block)
                /\ FoundOrRecycled(has_gr, gr_block)
             \/ /\ asin = None
                /\ FoundOrRecycled(has_gr, gr_block)
       IN IF policy THEN TreatedComplete ELSE CountedFailure]_vars

\* C2 amended - Completion policy of the code. A finished pass treats the
\* item as complete exactly when the primary source returned fresh data with
\* a vote count above zero and the secondary source returned fresh data; a
\* recycled block does not count and an item without a catalog id is never
\* complete; in every other case the pass counts a failure.
CompletionPolicy ==
  [][PassFinishes /\ BelowLimit =>
       IF has_aud /\ has_gr
         THEN TreatedComplete /\ asin # None
         ELSE CountedFailure]_vars

\* A pass is about to be decided on which the two policies disagree: a fresh
\* secondary record, an id, and a primary block that is only recycled.
RecycledIsNotComplete ==
  /\ pc = "hist" /\ BelowLimit
  /\ asin # None /\ ~has_aud /\ aud_block = "recycled" /\ has_gr

\* C3 - Refresh gating. Every item still to be processed in a library pass,
\* the one being processed included, is absent from history or has an entry
\* at least REFRESH_DAYS old; an item with a younger entry is neither queued
\* nor worked on.
RefreshGating ==
  pc \in AttemptPcs \cup {"loop"} =>
    \A j \in idx..Len(work_queue) :
      LET k == Key(CurLib, work_queue[j])
      IN k \notin DOMAIN history \/ today - history[k] >= REFRESH_DAYS

\* A library pass is at its loop with an item of the library left out of the
\* queue because its history entry is younger than REFRESH_DAYS.
GatedOut ==
  /\ pc = "loop"
  /\ \E i \in Range(server[CurLib]) :
       /\ i \notin Range(work_queue)
       /\ Key(CurLib, i) \in DOMAIN history
       /\ today - history[Key(CurLib, i)] < REFRESH_DAYS

\* C4 - Failure-counter invariant. Every stored counter lies in
\* 1..MAX_FAIL_ATTEMPTS-1, in memory and on disk; a finished pass with an
\* incomplete result raises the item's counter by exactly one, or commits the
\* item to history and removes the counter when that would reach
\* MAX_FAIL_ATTEMPTS; a pass with a complete result leaves the counter absent;
\* no other key's counter changes.
FailureCounter ==
  /\ [](\A k \in DOMAIN failed : failed[k] \in 1..(MAX_FAIL_ATTEMPTS - 1))
  /\ [](\A k \in DOMAIN disk["failed"].doc :
          disk["failed"].doc[k] \in 1..(MAX_FAIL_ATTEMPTS - 1))
  /\ [][PassFinishes =>
          LET fails == MapGet(failed, CurKey, 0) + 1
          IN /\ \A k \in Keys \ {CurKey} :
                  MapGet(failed', k, 0) = MapGet(failed, k, 0)
             /\ IF has_aud /\ has_gr
                  THEN CurKey \notin DOMAIN failed'
                ELSE IF fails < MAX_FAIL_ATTEMPTS
                  THEN CurKey \in DOMAIN failed' /\ failed'[CurKey] = fails
                ELSE /\ CurKey \notin DOMAIN failed'
                     /\ CurKey \in DOMAIN history' /\ history'[CurKey] = today]_vars

\* An item with failures on its counter is about to complete: the counter is
\* cleared, so a later failure starts again at one.
CounterCleared ==
  /\ pc = "hist" /\ has_aud /\ has_gr
  /\ CurKey \in DOMAIN failed /\ failed[CurKey] >= 2

\* The reconciler has the id already stored on the item in hand.
SameId == found # None /\ found = asin /\ ~refetch

\* C5 - Loop prevention. When the replacement step yields the id already
\* stored on the item, the step issues no id PATCH, leaves asin_found and
\* asin_migrated alone and goes on to the metadata sync without a second
\* lookup or search; the rating data of the first lookup is what reaches
\* description building.
LoopPrevention ==
  /\ [][pc = "recon" /\ asin # None /\ found' = asin =>
          /\ \A i \in DOMAIN calls' : calls'[i].op # "patch_asin"
          /\ stats'.asin_found = stats.asin_found
          /\ stats'.asin_migrated = stats.asin_migrated
          /\ pc' = "meta" /\ asin' = asin /\ refetch' = refetch
          /\ aud_data' = aud_data]_vars
  /\ [][SameId /\ pc \in {"meta", "sec"} =>
          \/ pc' \in {"idle", "post", "fetch"}
          \/ /\ SameId' /\ Settled(aud_data') = Settled(aud_data)
             /\ \A i \in DOMAIN calls' :
                  calls'[i].op = "search" => i \in DOMAIN calls /\ calls[i] = calls'[i]]_vars

\* Scenario B: the search returned the stored id and the data of the first
\* lookup, which has votes, is at description building.
SameIdKeepsData ==
  /\ pc = "desc" /\ SameId /\ HasAud(aud_data)
  /\ \E i \in DOMAIN calls : calls[i].op = "search"

\* C6 - Rate-limit retry/abort. A RateLimitException that is soft and leaves
\* the consecutive-signal counter below MAX_CONSECUTIVE_RL sends the loop back
\* to the same item before any other; a hard one, or a soft one that brings
\* the counter to MAX_CONSECUTIVE_RL, sets the abort flag; once the flag is
\* set no attempt on any item is started.
RateLimitRetryAbort ==
  /\ [][consecutive_rl' = consecutive_rl + 1 =>
          /\ signal' \in {"soft", "hard"}
          /\ IF signal' = "hard" \/ consecutive_rl' >= MAX_CONSECUTIVE_RL
               THEN aborted' /\ pc' # "fetch"
               ELSE /\ aborted' = aborted /\ pc' = "fetch"
                    /\ idx' = idx /\ work_queue' = work_queue
                    /\ libIdx' = libIdx]_vars
  /\ [][aborted => pc' # "fetch"]_vars

\* The same item is about to be attempted for the third time after two soft
\* signals in a row.
SoftRetry ==
  /\ pc = "fetch" /\ signal = "soft" /\ ~aborted
  /\ consecutive_rl = MAX_CONSECUTIVE_RL - 1

\* C7 as stated - Blocking signals propagate. Whenever a request of a source
\* adapter is answered with HTTP 429, 503, 403 or a CAPTCHA page, a
\* RateLimitException reaches the retry loop: no attempt goes on past such an
\* answer without the loop having received the signal.
BlockingPropagates == swallowed => signal \in {"soft", "hard"}

AbortPath == {"post", "lib", "loop", "fin_history", "fin_failed", "fin_audible",
              "fin_goodreads", "fin_env"}

\* C9 - Clean abort. Once the abort flag is set the run only leaves the
\* loops: no item of the current or of a later library is attempted, no
\* request is made and no map changes; and when the run ends with its
\* summary, history, failure map and both missing reports are on disk as
\* they are in memory and the summary says "aborted".
CleanAbort ==
  /\ [](aborted => pc \in AbortPath)
  /\ [][aborted /\ pc' # "idle" =>
          /\ aborted' /\ Len(calls') <= Len(calls) /\ stats' = stats
          /\ memVars' = memVars]_vars
  /\ [][aborted /\ pc = "fin_env" /\ disk'["env"].st = "complete" =>
          /\ disk'["env"].doc = "aborted"
          /\ disk'["history"] = Complete(history)
          /\ disk'["failed"] = Complete(failed)
          /\ disk'["missing_audible"] = Complete(reports.audible)
          /\ disk'["missing_goodreads"] = Complete(reports.goodreads)]_vars

\* A run of a library of two due items was aborted in its first attempt; the
\* second item was never attempted and everything is written but the summary.
AbortedRunWritten ==
  /\ pc = "fin_env" /\ aborted
  /\ Len(server.L1) = 2 /\ stats.processed = 1
  /\ disk["history"] = Complete(history) /\ disk["failed"] = Complete(failed)
  /\ disk["missing_audible"] = Complete(reports.audible)
  /\ disk["missing_goodreads"] = Complete(reports.goodreads)

\* C10 - Per-item exception containment. An exception other than a
\* rate-limit signal raised in an attempt adds one to the 'failed' statistic,
\* leaves the abort flag, the queue and the maps alone, and the loop goes on
\* with the next item of the queue.
ExceptionContained ==
  /\ [][signal' = "error" /\ pc \in AttemptPcs =>
          /\ pc' = "post"
          /\ stats'.failed = stats.failed + 1
          /\ aborted' = aborted
          /\ aborted' = FALSE
          /\ loopVars' = loopVars
          /\ memVars' = memVars]_vars
  /\ [][pc = "post" /\ signal = "error" /\ pc' # "idle" =>
          /\ pc' = "loop" /\ idx' = idx + 1
          /\ libIdx' = libIdx /\ work_queue' = work_queue]_vars
  /\ [][pc = "loop" /\ signal = "error" /\ idx <= Len(work_queue)
          /\ pc' # "idle" =>
          pc' = "fetch" /\ idx' = idx /\ libIdx' = libIdx]_vars

\* The second item of a queue is about to be attempted after the attempt on
\* the first ended in an exception.
NextItemAfterError ==
  /\ pc = "fetch" /\ idx = 2 /\ ~aborted
  /\ stats.failed = 1 /\ stats.success = 0 /\ history = EmptyMap
  /\ failed = EmptyMap

\* Requests that change the media server.
PatchOps == {"patch_asin", "patch_meta", "patch_isbn", "patch_desc"}

\* C11 - Dry-run. With DRY_RUN set no attempt issues a PATCH of any kind,
\* while the pass still runs: a replacement with a new id still counts
\* asin_found and asin_migrated and re-runs the lookup, and description
\* building still counts a success for a matched source and one recycle for
\* every recycled block.
DryRun ==
  /\ [](dry_run => \A i \in DOMAIN calls : calls[i].op \notin PatchOps)
  /\ [][dry_run /\ pc = "recon" /\ pc' = "aud" =>
          /\ stats'.asin_found = stats.asin_found + 1
          /\ stats'.asin_migrated = stats.asin_migrated + 1
          /\ asin' # asin /\ refetch']_vars
  /\ [][dry_run /\ pc = "desc" /\ pc' = "hist" =>
          /\ has_aud' = HasAud(aud_data) /\ has_gr' = HasGr(gr_data)
          /\ stats'.success
               = stats.success + (IF has_aud' \/ has_gr' THEN 1 ELSE 0)
          /\ stats'.recycled
               = stats.recycled + (IF aud_block' = "recycled" THEN 1 ELSE 0)
                                + (IF gr_block' = "recycled" THEN 1 ELSE 0)]_vars

\* A dry run is about to finish a pass that searched, took a new id,
\* matched the secondary source and recycled the primary block.
DryRunPass ==
  /\ dry_run /\ pc = "hist"
  /\ stats.processed = 1 /\ stats.asin_migrated = 1 /\ stats.success = 1
  /\ stats.recycled = 1 /\ aud_block = "recycled"
  /\ \E i \in DOMAIN calls : calls[i].op = "search"

\* C12 - Migration ordering. A replacement id that differs from the stored
\* one is PATCHed to the media API (in a run that writes), counted as one
\* asin_found and one asin_migrated, and the primary lookup is re-run with
\* it; the replacement logic is not entered again in that attempt, the data
\* that reaches the secondary lookup and description building belongs to
\* the new id, and every later request of the attempt follows the id PATCH.
MigrationOrdering ==
  /\ [][pc = "recon" /\ found' # None /\ found' # asin =>
          /\ pc' = "aud" /\ refetch' /\ asin' = found' /\ domIdx' = 1
          /\ aud_data' = NoData
          /\ stats'.asin_migrated = stats.asin_migrated + 1
          /\ stats'.asin_found = stats.asin_found + 1
          /\ Live(dry_run) =>
                /\ Len(calls') = Len(calls) + 1 \/ Len(calls') = Len(calls) + 2
                /\ calls'[Len(calls')] = Call("patch_asin", {found'})]_vars
  /\ [][stats'.asin_migrated # stats.asin_migrated /\ pc' # "idle" =>
          pc = "recon" /\ ~refetch /\ refetch']_vars
  /\ [](refetch => pc \in {"aud", "meta", "sec", "desc", "hist"})
  /\ [](refetch /\ pc \in {"meta", "sec", "desc", "hist"}
          /\ aud_data.kind = "data" => aud_data.asin = asin)
  /\ [](\A i, j \in DOMAIN calls :
          /\ calls[i].op = "patch_asin"
          /\ calls[j].op \in {"patch_meta", "gr", "patch_isbn", "patch_desc"}
          => i < j)
  /\ [](Cardinality({i \in DOMAIN calls : calls[i].op = "patch_asin"}) <= 1)

\* The secondary lookup is about to run after a migration: the id PATCH
\* was sent and the second lookup returned data for the new id.
MigratedThenSecondary ==
  /\ pc = "sec" /\ refetch /\ ~dry_run
  /\ \E i \in DOMAIN calls : calls[i] = Call("patch_asin", {asin})
  /\ aud_data.kind = "data" /\ aud_data.asin = asin /\ aud_data.count > 0
  /\ stats.asin_migrated = 1

\* C13 as stated - Run summary always produced. Every invocation of main()
\* that ends on its own (it is not killed) has written the run summary, and
\* the summary of a run says "aborted" exactly when the abort flag was set.
SummaryAlways ==
  /\ [](last_exit # "early")
  /\ [](last_exit = "summary" => disk["env"].st = "complete")
  /\ [][pc = "fin_env" /\ last_exit' = "summary" =>
          (disk'["env"].doc = "aborted") = aborted]_vars

\* the lines between the header line and the closing marker
Inner(d) == SubSeq(d, 2, Len(d) - 1)

Occurs(x, d) == Cardinality({i \in DOMAIN d : d[i] = x})

\* C14: merge recycling.  Whenever build_description has run, its block
\* starts with the header and ends with the closing marker; if the primary
\* source brought no result with votes and the description held an old primary
\* block, that block stands once, as it was, between the two markers, no fresh
\* primary line stands beside it, and the recycled counter grew by one for
\* the primary source; if there was no old block either, no primary line is
\* emitted and the primary source adds nothing to the counter.
MergeRecycling ==
  [][final_desc' # << >> /\ pc = "desc" =>
       LET d == final_desc'
           noFresh == ~(aud_data.kind = "data" /\ aud_data.count > 0)
           byGr == IF gr_data.kind # "data" /\ old_gr' # None THEN 1 ELSE 0
           grew == stats'.recycled - stats.recycled
       IN /\ d[1] = "header" /\ d[Len(d)] = "footer"
          /\ (noFresh /\ old_aud' # None) =>
               /\ Occurs(old_aud', Inner(d)) = 1
               /\ Occurs("Audible (new)", d) = 0
               /\ grew = 1 + byGr
          /\ (noFresh /\ old_aud' = None) =>
               /\ \A i \in DOMAIN d : d[i] \notin {"Audible (new)", "Audible (old)"}
               /\ grew = byGr]_vars

RecycledBlockWritten ==
  /\ pc = "hist" /\ ~has_aud /\ old_aud = "Audible (old)" /\ old_gr = None
  /\ final_desc = <<"header", "Audible (old)", "Goodreads (new)", "footer">>
  /\ stats.recycled = 1

\* C15: missing-report invariant.  The step that finishes a pass of an item
\* leaves the item's key in the missing report of the primary source exactly
\* when the primary result of the pass has no votes, and in the report of the
\* secondary source exactly when the pass has no secondary record, whatever
\* the reports said before; the entries of every other key stay as they were.
MissingReport ==
  [][pc = "hist" /\ pc' = "save_history" =>
       LET k == Key(LIBRARY_IDS[libIdx], work_queue[idx])
       IN /\ (k \in reports'.audible) <=>
               ~(aud_data.kind = "data" /\ aud_data.count > 0)
          /\ (k \in reports'.goodreads) <=> gr_data.kind # "data"
          /\ \A o \in Keys \ {k} :
               /\ (o \in reports'.audible) <=> (o \in reports.audible)
               /\ (o \in reports'.goodreads) <=> (o \in reports.goodreads)]_vars

\* A pass has just taken the key out of the primary report, where an earlier
\* run had put it, and left it in the secondary report.
EntryRemoved ==
  /\ pc = "save_history"
  /\ disk["missing_audible"].st = "complete"
  /\ CurKey \in disk["missing_audible"].doc
  /\ CurKey \notin reports.audible
  /\ CurKey \in reports.goodreads

\* The replacement logic of lines 723-767 was entered by the step: it took an
\* alternate-region id or sent the keyword search.
SearchStarted == calls' # calls \/ found' # None

\* The four triggers, the mirror compared with language l.
Triggered(l) ==
  \/ asin = None
  \/ aud_data.kind = "None"
  \/ aud_data.count = 0
  \/ (Lower(l) \in GERMAN_LANG_CODES /\ aud_data.domain = "www.audible.com")
  \/ (Lower(l) \notin GERMAN_LANG_CODES /\ aud_data.domain = "www.audible.de")

\* What the step after the first lookup does when the replacement is triggered
\* by the mirror of language l, and what it leaves alone otherwise.
TriggersFor(l) ==
  /\ SearchStarted <=> Triggered(l)
  /\ Triggered(l) => search_penalty'
  /\ ~Triggered(l) =>
       /\ asin' = asin /\ search_penalty' = search_penalty
       /\ \A i \in DOMAIN calls' : calls'[i].op \notin {"search", "patch_asin"}

AlternateId(l) ==
  IF aud_data.kind = "None" THEN None
  ELSE IF Lower(l) \in GERMAN_LANG_CODES THEN aud_data.variant_asin_de
  ELSE aud_data.variant_asin_us

Called(log, op) == \E i \in DOMAIN log : log[i].op = op

\* What a step that entered the replacement logic does with the alternate id
\* of the mirror of language l.
PreferenceFor(l) ==
  SearchStarted =>
    /\ AlternateId(l) # None =>
         /\ ~Called(calls', "search")
         /\ \/ found' = AlternateId(l)
            \/ calls'[Len(calls')] = Call("patch_asin", {AlternateId(l)})
    /\ AlternateId(l) = None => Called(calls', "search")

\* C17 as stated: once the replacement is triggered, an alternate-region id
\* for the mirror of the language stored with the item is taken as the
\* replacement without a keyword search, and the keyword search runs only
\* when the result carries no such id.
AlternatePreferenceStated ==
  [][pc = "recon" /\ pc' # "idle" => PreferenceFor(lang)]_vars

\* C17, amended: the same for the mirror of the language the product page
\* states when it states one, and of the stored language only otherwise.
AlternatePreference ==
  [][pc = "recon" /\ pc' # "idle" =>
       PreferenceFor(IF new_lang_detected # None THEN new_lang_detected
                     ELSE lang)]_vars

\* The id was replaced by the alternate-region id of the result, and no
\* keyword search was sent.
MigratedByLink ==
  /\ pc = "aud" /\ refetch /\ asin = "A2" /\ found = "A2"
  /\ Called(calls, "patch_asin") /\ ~Called(calls, "search")

\* C18: first successful region wins.  Once a region has answered with a page
\* that yields votes and an overall rating, get_audible_data has returned, no
\* later region was asked, and the record it returned is made of that page
\* alone: the domain, the alternate ids and the metadata of that region.
FirstSuccessWins ==
  \A i \in DOMAIN served :
    served[i].page.kind = "rated" =>
      /\ i = Len(served) /\ pc # "aud"
      /\ aud_data = [kind |-> "data", count |-> 7,
                     domain |-> served[i].domain,
                     variant_asin_us |-> served[i].page.links.us,
                     variant_asin_de |-> served[i].page.links.de,
                     meta |-> served[i].page.meta,
                     source |-> "page", asin |-> asin]

\* The first region asked served a rated page: its record went to the caller
\* and the second region was not asked.
WonByFirstRegion ==
  /\ pc = "recon" /\ Len(served) = 1
  /\ served[1].page.kind = "rated"
  /\ aud_data.kind = "data" /\ aud_data.domain = served[1].domain

\* get_audible_data has sent requests and returned; its result is in aud_data
LookupOver == pc \in {"recon", "meta"} /\ served # << >>

\* region i served a real product page without ratings
RealEmpty(i) == served[i].page.kind = "unrated"

NoRealData == aud_data.kind = "None" \/ aud_data.count = 0

\* C19: empty-success fallback.  When the lookup is over without real data
\* and some region served a real product page with zero ratings, the result
\* is the empty record (count 0) with the domain of the first such region;
\* the result is None only if no region served a real product page; and a
\* lookup that asked one region only has returned real data.
EmptyFallback ==
  LookupOver =>
    /\ (NoRealData /\ \E i \in DOMAIN served : RealEmpty(i)) =>
         LET first == CHOOSE i \in DOMAIN served :
                        RealEmpty(i) /\ \A j \in 1..(i - 1) : ~RealEmpty(j)
         IN /\ aud_data.kind = "data" /\ aud_data.count = 0
            /\ aud_data.source = "Empty"
            /\ aud_data.domain = served[first].domain
    /\ aud_data.kind = "None" => \A i \in DOMAIN served : ~RealEmpty(i)
    /\ Len(served) = 1 => ~NoRealData

\* the mirror that goes with language l in the eyes of the reconciler
MirrorOf(l) ==
  IF Lower(l) \in GERMAN_LANG_CODES THEN "www.audible.de" ELSE "www.audible.com"

\* C20: language-directed region order.  For the language of the item in
\* hand, get_audible_data and find_missing_asin both start with the mirror
\* the reconciler assigns to that language: .de for every member of
\* GERMAN_LANG_CODES, .com for every other value; and the first page request
\* of a lookup went to that mirror.
RegionOrder ==
  lang # None =>
    /\ Domains(lang)[1] = MirrorOf(lang)
    /\ FindDomains(lang)[1] = MirrorOf(lang)
    /\ served # << >> => served[1].domain = MirrorOf(lang)

\* ------------------------------------------------------------ text search
\* The helper functions are studied one call at a time; no run of main() is
\* in progress meanwhile.
progVars == <<envVars, diskVars, memVars, loopVars, itemVars, obsVars, stats,
              aborted, pc, wstage, consecutive_rl, search_penalty, attempts,
              desc_status>>

HelperInit == Init /\ ~server.rich /\ ItemCount(server) = 1

\* Scores are ratios in hundredths; durations are seconds, 0 for a missing
\* one; volume numbers are sets of digit strings as extract_volume gives them.
MaxRows == 2

SeqsUpTo(S, n) == UNION {[1..k -> S] : k \in 0..n}

\* One <li class="productListItem"> of an Audible result page: the ratio of
\* its title, match_author's verdict, whether it has a runtime label, the
\* seconds read from the label and the volume numbers of its title.
Products ==
  [ratio : {70, 71, 95}, auth : BOOLEAN, label : {TRUE},
   rt : {0, 3899, 3900, 4501}, vols : {{}, {"10"}}]
  \cup [ratio : {70, 71, 95}, auth : BOOLEAN, label : {FALSE}, rt : {0},
        vols : {{}, {"10"}}]

\* One <tr itemtype="http://schema.org/Book"> of a Goodreads result page.
Rows ==
  [ratio : {61, 76, 80}, contained : BOOLEAN, auth : BOOLEAN,
   vols : {{}, {"10"}}]

ItemDurations == {0, 3600}
ItemVolumes == {{}, {"3"}}

Abs(n) == IF n < 0 THEN 0 - n ELSE n

\* lines 469-478: found_dur_sec
FoundDur(c) == IF c.label THEN c.rt ELSE 0

\* lines 468-478: dur_match
DurMatch(c, duration) ==
  /\ c.label
  /\ IF c.rt > 0 THEN duration > 0 /\ Abs(duration - c.rt) < 300 ELSE TRUE

\* lines 464-491: what the loop body does with one product: "skip" (a
\* continue or the end of the body) or "return"
FindDecision(c, duration) ==
  IF c.ratio < 70 THEN "skip"
  ELSE IF c.ratio > 70 /\ c.auth
    THEN IF duration > 0 /\ FoundDur(c) > 0 /\ ~DurMatch(c, duration)
           THEN "skip" ELSE "return"
  ELSE IF c.ratio > 80 /\ DurMatch(c, duration) /\ duration > 0 THEN "return"
  ELSE "skip"

\* find_missing_asin on one result page, lines 454-491: the position of the
\* product whose id is returned, 0 when the loop ends without a return.
RECURSIVE FindLoop(_, _, _)
FindLoop(page, i, duration) ==
  IF i > Len(page) THEN 0
  ELSE IF FindDecision(page[i], duration) = "return" THEN i
  ELSE FindLoop(page, i + 1, duration)

find_missing_asin(page, duration) == FindLoop(page, 1, duration)

\* lines 578-581: t_score with the containment bonus
GrScore(r) == r.ratio + (IF r.contained THEN 15 ELSE 0)

\* lines 583-585: the volume check drops the row
GrVolumeSkip(r, t_nums) ==
  r.vols # {} /\ t_nums # {} /\ r.vols \cap t_nums = {} /\ GrScore(r) < 90

\* get_goodreads_data, lines 571-591: best_url after the loop over the rows
\* (the position of the row, 0 for None).
RECURSIVE GrLoop(_, _, _, _, _)
GrLoop(rows, i, t_nums, best_url, best_score) ==
  IF i > Len(rows) THEN best_url
  ELSE IF GrVolumeSkip(rows[i], t_nums) \/ ~rows[i].auth
    THEN GrLoop(rows, i + 1, t_nums, best_url, best_score)
  ELSE IF GrScore(rows[i]) > 75 /\ GrScore(rows[i]) > best_score
    THEN GrLoop(rows, i + 1, t_nums, i, GrScore(rows[i]))
  ELSE GrLoop(rows, i + 1, t_nums, best_url, best_score)

gr_list_match(rows, t_nums) == GrLoop(rows, 1, t_nums, 0, 0)

\* One result page goes through the loop of find_missing_asin.
CallFind ==
  /\ fcall = NoCall
  /\ \E page \in SeqsUpTo(Products, MaxRows), duration \in ItemDurations,
        t_nums \in ItemVolumes :
       fcall' = [fn |-> "find_missing_asin",
                 arg |-> [page |-> page, duration |-> duration, t_nums |-> t_nums],
                 out |-> find_missing_asin(page, duration)]
  /\ UNCHANGED progVars

\* One result page goes through the list match of get_goodreads_data.
CallGr ==
  /\ fcall = NoCall
  /\ \E rows \in SeqsUpTo(Rows, MaxRows), t_nums \in ItemVolumes :
       fcall' = [fn |-> "gr_list_match",
                 arg |-> [page |-> rows, t_nums |-> t_nums],
                 out |-> gr_list_match(rows, t_nums)]
  /\ UNCHANGED progVars

SearchNext == CallFind \/ CallGr

SearchSpec == HelperInit /\ [][SearchNext]_vars

IsFind == fcall.fn = "find_missing_asin"
IsGr == fcall.fn = "gr_list_match"

\* the combined score of candidate i of the page in hand
ScoreAt(i) ==
  IF IsGr THEN GrScore(fcall.arg.page[i]) ELSE fcall.arg.page[i].ratio

\* candidate i passes the filters of its call site: title, author and
\* duration for the primary search, volume and author for the list match
PassesAt(i) ==
  IF IsGr THEN /\ fcall.arg.page[i].auth
               /\ ~GrVolumeSkip(fcall.arg.page[i], fcall.arg.t_nums)
  ELSE FindDecision(fcall.arg.page[i], fcall.arg.duration) = "return"

\* the acceptance threshold of the call site
ThresholdNow == IF IsGr THEN 75 ELSE 70

\* the candidate a ranking by maximum score selects: the earliest of those
\* with the highest score among the passing ones, if that score exceeds the
\* threshold; 0 for none
BestAt ==
  LET ok == {i \in DOMAIN fcall.arg.page : PassesAt(i)}
      top == {i \in ok : \A j \in ok : ScoreAt(j) <= ScoreAt(i)}
      first == CHOOSE i \in top : \A j \in top : i <= j
  IN IF ok = {} THEN 0
     ELSE IF ScoreAt(first) > ThresholdNow THEN first ELSE 0

\* C21: candidate ranking.  In both text searches the candidate selected from
\* one result page is the earliest of those with the maximum combined score
\* among the candidates that pass the filters, and it is selected only if that
\* score exceeds the acceptance threshold.
CandidateRanking == (IsFind \/ IsGr) => fcall.out = BestAt

\* The same for the list match of the secondary source alone.
GrRanking == IsGr => fcall.out = BestAt

\* the volume numbers of the candidate and of the local title are both there
\* and have no number in common
VolumesDisjoint(c, t_nums) == c.vols # {} /\ t_nums # {} /\ c.vols \cap t_nums = {}

\* C22: volume-number veto.  In both text searches a candidate whose volume
\* numbers and the local title's volume numbers are both non-empty and
\* disjoint is never the one selected, whatever its score.
VolumeVeto ==
  ((IsFind \/ IsGr) /\ fcall.out # 0) =>
    ~VolumesDisjoint(fcall.arg.page[fcall.out], fcall.arg.t_nums)

\* C23: duration tolerance.  In the primary replacement search the first
\* product of a page, when it passes the title and the author check, is
\* passed over exactly when the item and the product both report a positive
\* duration and the two differ by more than 900 seconds.
DurationTolerance ==
  (IsFind /\ Len(fcall.arg.page) >= 1) =>
    LET c == fcall.arg.page[1]
        d == fcall.arg.duration
    IN (c.ratio > 70 /\ c.auth) =>
         ((fcall.out # 1) <=>
            (d > 0 /\ c.label /\ c.rt > 0 /\ Abs(d - c.rt) > 900))

\* ------------------------------------------------------------ moon_rating
\* Ratings are taken in hundredths: 430 is 4.3.  The float subtraction of
\* line 166 is exact on the thresholds (x.25 and x.75 are binary fractions)
\* and off by less than 1e-15 elsewhere, so hundredths decide the branches.
MaxHundredths == 500

\* str * n
Repeat(x, n) == [i \in 1..n |-> x]

\* str.ljust(n, fill)
Ljust(s, n, fill) == IF Len(s) >= n THEN s ELSE s \o Repeat(fill, n - Len(s))

Smaller(a, b) == IF a < b THEN a ELSE b

\* A bar that rounds up from the half.
moon_rating_half_up(v) ==
  LET whole == v \div 100
      full == IF v % 100 >= 50 THEN whole + 1 ELSE whole
  IN SubSeq(Ljust(Repeat("full", Smaller(full, 5)), 5, "empty"), 1, 5)

\* moon_rating, lines 163-177
moon_rating(v) ==
  IF v = 0 THEN Repeat("empty", 5)
  ELSE LET whole == v \div 100
           decimal == v % 100
           full == IF decimal >= 75 THEN whole + 1 ELSE whole
           half == IF decimal >= 75 THEN 0 ELSE IF decimal >= 25 THEN 1 ELSE 0
       IN SubSeq(Ljust(Repeat("full", Smaller(full, 5)) \o Repeat("half", half),
                       5, "empty"), 1, 5)

\* One rating is rendered.
CallMoon ==
  /\ fcall = NoCall
  /\ \E v \in 0..MaxHundredths :
       fcall' = [fn |-> "moon_rating", arg |-> v, out |-> moon_rating(v)]
  /\ UNCHANGED progVars

MoonSpec == HelperInit /\ [][CallMoon]_vars

IsMoon == fcall.fn = "moon_rating"

\* the bar of f full slots and h half slots
Bar(f, h) ==
  [i \in 1..5 |-> IF i <= f THEN "full" ELSE IF i <= f + h THEN "half" ELSE "empty"]

\* C24: moon-bar rendering.  For every rating the bar has exactly five slots:
\* F full ones, then H half ones, then empty ones, with F the whole part plus
\* one if the fraction is at least 0.75, and H = 1 exactly when the fraction
\* is in [0.25, 0.75); 4.0 gives four full, 4.3 four full and a half, 4.8
\* five full, 0 five empty.
MoonBar ==
  IsMoon =>
    LET v == fcall.arg
        frac == v % 100
        F == IF frac >= 75 THEN (v \div 100) + 1 ELSE v \div 100
        H == IF frac >= 25 /\ frac < 75 THEN 1 ELSE 0
    IN /\ Len(fcall.out) = 5 /\ F + H <= 5
       /\ fcall.out = Bar(F, H)
       /\ v = 400 => fcall.out = <<"full", "full", "full", "full", "empty">>
       /\ v = 430 => fcall.out = <<"full", "full", "full", "full", "half">>
       /\ v = 480 => fcall.out = <<"full", "full", "full", "full", "full">>
       /\ v = 0 => fcall.out = <<"empty", "empty", "empty", "empty", "empty">>

\* 2.5 was rendered as two full slots, a half one and two empty ones.
HalfMoonRendered ==
  /\ IsMoon /\ fcall.arg = 250
  /\ fcall.out = <<"full", "full", "half", "empty", "empty">>

\* ------------------------------------------------------------ normalize_title_text
\* A title is a sequence of tokens: words, and the characters between them.
\* Two words never stand side by side (they would be one word).
MaxTitle == 4

TitleWords == {"graphic", "audio", "dune", "One", "book"}
TitleSeps == {" ", "-"}

IsWord(x) == x \notin TitleSeps

Titles ==
  {t \in SeqsUpTo(TitleWords \cup TitleSeps, MaxTitle) :
     \A i \in 1..(Len(t) - 1) : ~(IsWord(t[i]) /\ IsWord(t[i + 1]))}

\* RE_CLEAN_TITLE.sub(' ', t), lines 73 and 155: a single noise word, or
\* "graphic audio" written with one blank, becomes a blank.
RECURSIVE CleanTitle(_)
CleanTitle(t) ==
  IF t = << >> THEN << >>
  ELSE IF Len(t) >= 3 /\ t[1] = "graphic" /\ t[2] = " " /\ t[3] = "audio"
    THEN <<" ">> \o CleanTitle(SubSeq(t, 4, Len(t)))
  ELSE IF t[1] \in {"unabridged", "abridged", "audiobook"}
    THEN <<" ">> \o CleanTitle(Tail(t))
  ELSE <<t[1]>> \o CleanTitle(Tail(t))

\* lines 156-159 on one token: lower(), punctuation to blank, NUMBER_MAP
TitleToken(x) ==
  CASE x = "One" -> "1"
    [] x = "one" -> "1"
    [] x = "-"   -> " "
    [] OTHER     -> x

\* RE_NOISE.sub('', t), lines 85 and 160
DropNoise(t) == SelectSeq(t, LAMBDA x : x \notin {"book", "vol", "volume", "part"})

\* re.sub(r'\s+', ' ', t).strip(), line 161
RECURSIVE Squeeze(_)
Squeeze(t) ==
  IF t = << >> THEN << >>
  ELSE IF t[1] = " " /\ (Len(t) = 1 \/ t[2] = " ") THEN Squeeze(Tail(t))
  ELSE <<t[1]>> \o Squeeze(Tail(t))

Strip(t) == IF t # << >> /\ t[1] = " " THEN Tail(t) ELSE t

\* normalize_title_text, lines 153-161
normalize_title_text(t) ==
  IF t = << >> THEN << >>
  ELSE LET cleaned == CleanTitle(t)
           mapped == [i \in DOMAIN cleaned |-> TitleToken(cleaned[i])]
       IN Strip(Squeeze(DropNoise(mapped)))

\* One title is normalized.
CallNormalize ==
  /\ fcall = NoCall
  /\ \E t \in Titles :
       fcall' = [fn |-> "normalize_title_text", arg |-> t,
                 out |-> normalize_title_text(t)]
  /\ UNCHANGED progVars

TitleSpec == HelperInit /\ [][CallNormalize]_vars

\* C25: normalizer idempotence.  Normalizing the result of a normalization
\* changes nothing, also when the title has punctuation between the words of
\* a noise phrase such as "graphic-audio".
NormalizerIdempotent ==
  fcall.fn = "normalize_title_text" =>
    normalize_title_text(fcall.out) = fcall.out

\* C26: frame on interrupted attempts.  The step on which an attempt ends
\* with a rate-limit signal or with an unexpected exception leaves the history
\* map, the failure-counter map and both missing reports as they are, and so
\* does every step of an attempt before its history step: the interrupted
\* attempt has changed none of them, and the item's failure counter is the
\* one it had before the attempt.
InterruptedFrame ==
  /\ [][(signal' \in {"soft", "hard", "error"}) /\ pc \in AttemptPcs =>
          /\ history' = history /\ failed' = failed /\ reports' = reports
          /\ pc' \in {"fetch", "post"}]_vars
  /\ [][pc' # "idle" /\ pc \in (AttemptPcs \ {"hist"}) =>
          history' = history /\ failed' = failed /\ reports' = reports]_vars

\* After two failed passes of earlier runs an attempt of the item was
\* interrupted by a soft signal: the item is retried with its counter at two.
RetriedWithSameCounter ==
  /\ pc = "fetch" /\ signal = "soft"
  /\ MapGet(failed, CurKey, 0) = 2
  /\ CurKey \notin DOMAIN history
  /\ CurKey \in reports.audible

Guarded(c, tg) ==
  CASE c.op = "patch_desc" -> "lock_description" \in tg
    [] c.op = "patch_isbn" -> "lock_isbn" \in tg
    [] c.op = "patch_meta" ->
         \/ "publisher" \in c.arg /\ "lock_publisher" \in tg
         \/ "publishedYear" \in c.arg /\ "lock_year" \in tg
         \/ "language" \in c.arg /\ "lock_language" \in tg
         \/ "genres" \in c.arg /\ "lock_genres" \in tg
         \/ "series" \in c.arg /\ "lock_series" \in tg
    [] OTHER -> FALSE

\* C28: lock tags.  No attempt goes on with an item tagged lock_all: the
\* step that reads the tag counts a skip and ends the item with the item GET
\* as its only request, so no adapter was called and no PATCH issued, and it
\* leaves history, failure counters and reports as they are (an item that was
\* not in history is still not in it).  No request issued by any step carries
\* a field whose lock tag is among the tags of the item.
LockTags ==
  /\ []("lock_all" \notin tags)
  /\ [][stats'.skipped = stats.skipped + 1 =>
          /\ pc = "fetch" /\ pc' = "post" /\ signal' = "none"
          /\ calls' = <<Call("get_item", {})>>
          /\ history' = history /\ failed' = failed /\ reports' = reports
          /\ stats'.processed = stats.processed]_vars
  /\ [][pc' # "idle" =>
          \A i \in DOMAIN calls' :
             i > Len(calls) => ~Guarded(calls'[i], tags)]_vars

\* The metadata PATCH of an item tagged lock_publisher carried the series
\* alone, although the publisher differed as well.
PublisherWithheld ==
  /\ pc = "sec"
  /\ "lock_publisher" \in tags
  /\ \E i \in DOMAIN calls : calls[i] = Call("patch_meta", {"series"})

\* C29: the history commit does not depend on the write outcome.  A
\* description PATCH answered with a non-200 status counts one 'failed' and no
\* 'success' and the pass goes on to its history step with history, failure
\* counters and reports untouched; when both sources matched, that step dates
\* the item in history with today and drops its failure counter, so that the
\* item is in no work queue before REFRESH_DAYS days have passed.
CommitDespiteFailedWrite ==
  /\ [][pc = "desc" /\ desc_status' = "500" =>
          /\ pc' = "hist"
          /\ stats'.failed = stats.failed + 1
          /\ stats'.success = stats.success
          /\ history' = history /\ failed' = failed /\ reports' = reports]_vars
  /\ [][pc = "hist" /\ pc' = "save_history" /\ desc_status = "500"
          /\ has_aud /\ has_gr =>
          /\ history' = MapSet(history, CurKey, today)
          /\ failed' = MapPop(failed, CurKey)
          /\ \A d \in today..(today + REFRESH_DAYS - 1) :
               CurItem \notin WorkSet(CurLib, server[CurLib], history', d)]_vars

\* Both sources matched for an item with a failed pass on its counter, and
\* the description PATCH came back with a non-200 status.
MatchedButNotWritten ==
  /\ pc = "hist" /\ desc_status = "500"
  /\ has_aud /\ has_gr
  /\ MapGet(failed, CurKey, 0) > 0

\* C30: data after migration.  Once a different replacement id was adopted,
\* the primary result the rest of the pass reads is the one the re-fetch with
\* the new id returned: it is None or carries the new id, whatever the
\* overwritten result of the old id held.  The description step decides the
\* primary match on that result alone; when it has no votes the primary block
\* is recycled from the old description or left out, and the history step
\* cannot take the item for complete.
DataAfterMigration ==
  /\ [](dropped # "none" <=> refetch)
  /\ [](refetch /\ pc \in {"meta", "sec", "desc"} =>
          aud_data = NoData \/ (aud_data.kind = "data" /\ aud_data.asin = asin))
  /\ [][refetch /\ pc = "desc" /\ pc' = "hist" =>
          /\ has_aud' = (aud_data.kind = "data" /\ aud_data.count > 0)
          /\ ~has_aud' => aud_block' \in {"recycled", "none"}
          /\ ~has_aud' /\ final_desc' # << >> =>
               /\ Occurs("Audible (new)", final_desc') = 0
               /\ Occurs("Audible (old)", final_desc')
                    = (IF old_aud' # None THEN 1 ELSE 0)]_vars
  /\ [][refetch /\ pc = "hist" /\ pc' = "save_history" /\ ~has_aud =>
          history' = history \/ MapGet(failed, CurKey, 0) + 1 >= MAX_FAIL_ATTEMPTS]_vars

\* The lookup with the old id had votes, the re-fetch with the adopted id
\* brought none, and the description was built with the recycled old block.
RatedResultDropped ==
  /\ pc = "hist" /\ refetch /\ dropped = "rated"
  /\ ~has_aud /\ aud_block = "recycled"
  /\ Occurs("Audible (old)", final_desc) = 1

============================================================================
